---------------------------- MODULE Spec2Model ----------------------------
(***************************************************************************)
(* Model of scripts/sync-secrets.py: the credential-store lookup           *)
(* (get_from_keychain), the repository secret client (secret_exists,       *)
(* set_secret) and the two command handlers (cmd_list, cmd_sync).          *)
(*                                                                         *)
(* Python strings are sequences of one-character strings, so that          *)
(* strip / split / splitlines / json.loads are computed, not assumed.      *)
(* Python's None is the one-element sequence <<"None">>, which no          *)
(* character sequence equals.                                              *)
(***************************************************************************)
EXTENDS Integers, Sequences, FiniteSets, TLC

VARIABLES
    config,         \* Config: [secrets: Seq(SecretDef), repos: Seq(RepoDef)] in dict order
    args,           \* argparse.Namespace: [command, secret, all, dry_run]
    pc,             \* position of the running handler
    secret_names,   \* cmd_list / cmd_sync local
    si,             \* index of the current secret in secret_names
    repos_needing,  \* cmd_list / cmd_sync local
    ri,             \* index of the current repository in repos_needing
    secret_values,  \* cmd_sync local: set of <<name, value>> (a dict)
    calls,          \* every gh invocation so far, in order
    lookups,        \* every value resolution so far, in order
    printed,        \* every line printed so far, in order
    remote,         \* what the successful gh secret set calls have stored
    exit_code,      \* process exit status, -1 while running
    call,           \* input of the pure function under test
    ret             \* its result

vars == <<config, args, pc, secret_names, si, repos_needing, ri, secret_values,
          calls, lookups, printed, remote, exit_code, call, ret>>

orch_vars == <<config, args, pc, secret_names, si, repos_needing, ri,
               secret_values, calls, lookups, printed, remote, exit_code>>

----------------------------------------------------------------------------
(* Bounds of the model *)

NumSecrets == 2     \* secrets defined in the config
NumRepos == 2       \* repositories defined in the config
MaxOut == 3         \* longest gh listing output explored character by character
MaxPath == 2        \* longest json_path (in segments) explored

----------------------------------------------------------------------------
(* Python values *)

None == <<"None">>

\* Python truthiness of an Optional[str]
Truthy(v) == v # None /\ v # <<>>

Whitespace == {" ", "\t", "\n", "\r"}

\* index of the first occurrence of character c in s, 0 if there is none
Find(s, c) ==
    IF \E i \in 1..Len(s) : s[i] = c
    THEN CHOOSE i \in 1..Len(s) : s[i] = c /\ \A j \in 1..(i - 1) : s[j] # c
    ELSE 0

\* str.strip()
strip(s) ==
    IF \A i \in 1..Len(s) : s[i] \in Whitespace
    THEN <<>>
    ELSE LET lo == CHOOSE i \in 1..Len(s) :
                      s[i] \notin Whitespace /\ \A j \in 1..(i - 1) : s[j] \in Whitespace
             hi == CHOOSE i \in 1..Len(s) :
                      s[i] \notin Whitespace /\ \A j \in (i + 1)..Len(s) : s[j] \in Whitespace
         IN SubSeq(s, lo, hi)

\* str.split(sep) for a one-character separator: always at least one field
RECURSIVE split(_, _)
split(s, sep) ==
    LET i == Find(s, sep)
    IN IF i = 0 THEN <<s>>
       ELSE <<SubSeq(s, 1, i - 1)>> \o split(SubSeq(s, i + 1, Len(s)), sep)

\* str.splitlines() on "\n"-terminated output: no empty last line
RECURSIVE splitlines(_)
splitlines(s) ==
    IF s = <<>> THEN <<>>
    ELSE LET i == Find(s, "\n")
         IN IF i = 0 THEN <<s>>
            ELSE <<SubSeq(s, 1, i - 1)>> \o splitlines(SubSeq(s, i + 1, Len(s)))

----------------------------------------------------------------------------
(* json.loads on compact JSON text: objects, arrays, strings without       *)
(* escapes, unsigned integers, null.  Anything else is a JSONDecodeError.  *)
(* Values: [t |-> "str", v], [t |-> "num", v] (its digits), [t |-> "null"],*)
(* [t |-> "obj", v |-> Seq(<<key, value>>)], [t |-> "arr", v |-> Seq].     *)

Digits == {"0", "1", "2", "3", "4", "5", "6", "7", "8", "9"}

JFail == [ok |-> FALSE, val |-> None, rest |-> <<>>]
JOk(v, r) == [ok |-> TRUE, val |-> v, rest |-> r]

StartsWith(s, p) == Len(s) >= Len(p) /\ SubSeq(s, 1, Len(p)) = p

\* a string literal at the head of s
ParseString(s) ==
    IF s = <<>> \/ Head(s) # "\"" THEN JFail
    ELSE LET close == Find(Tail(s), "\"")
         IN IF close = 0 THEN JFail
            ELSE JOk([t |-> "str", v |-> SubSeq(s, 2, close)],
                     SubSeq(s, close + 2, Len(s)))

\* an unsigned integer at the head of s (no leading zero)
ParseNumber(s) ==
    LET n == IF \A i \in 1..Len(s) : s[i] \in Digits THEN Len(s)
             ELSE (CHOOSE i \in 1..Len(s) :
                      s[i] \notin Digits /\ \A j \in 1..(i - 1) : s[j] \in Digits) - 1
    IN IF n = 0 \/ (n > 1 /\ s[1] = "0") THEN JFail
       ELSE JOk([t |-> "num", v |-> SubSeq(s, 1, n)], SubSeq(s, n + 1, Len(s)))

RECURSIVE ParseValue(_), ParseMembers(_, _), ParseElements(_, _)

ParseValue(s) ==
    IF s = <<>> THEN JFail
    ELSE IF Head(s) = "\"" THEN ParseString(s)
    ELSE IF Head(s) \in Digits THEN ParseNumber(s)
    ELSE IF StartsWith(s, <<"n", "u", "l", "l">>)
         THEN JOk([t |-> "null"], SubSeq(s, 5, Len(s)))
    ELSE IF Head(s) = "{"
         THEN IF Len(s) >= 2 /\ s[2] = "}"
              THEN JOk([t |-> "obj", v |-> <<>>], SubSeq(s, 3, Len(s)))
              ELSE ParseMembers(Tail(s), <<>>)
    ELSE IF Head(s) = "["
         THEN IF Len(s) >= 2 /\ s[2] = "]"
              THEN JOk([t |-> "arr", v |-> <<>>], SubSeq(s, 3, Len(s)))
              ELSE ParseElements(Tail(s), <<>>)
    ELSE JFail

\* "key":value ("," "key":value)* "}" after the opening brace
ParseMembers(s, acc) ==
    LET k == ParseString(s)
    IN IF ~k.ok \/ k.rest = <<>> \/ Head(k.rest) # ":" THEN JFail
       ELSE LET v == ParseValue(Tail(k.rest))
                acc2 == Append(acc, <<k.val.v, v.val>>)
            IN IF ~v.ok \/ v.rest = <<>> THEN JFail
               ELSE IF Head(v.rest) = "}" THEN JOk([t |-> "obj", v |-> acc2], Tail(v.rest))
               ELSE IF Head(v.rest) = "," THEN ParseMembers(Tail(v.rest), acc2)
               ELSE JFail

\* value ("," value)* "]" after the opening bracket
ParseElements(s, acc) ==
    LET v == ParseValue(s)
        acc2 == Append(acc, v.val)
    IN IF ~v.ok \/ v.rest = <<>> THEN JFail
       ELSE IF Head(v.rest) = "]" THEN JOk([t |-> "arr", v |-> acc2], Tail(v.rest))
       ELSE IF Head(v.rest) = "," THEN ParseElements(Tail(v.rest), acc2)
       ELSE JFail

\* json.loads(text): [ok |-> FALSE] stands for JSONDecodeError
json_loads(text) ==
    LET r == ParseValue(text)
    IN IF r.ok /\ r.rest = <<>> THEN r ELSE JFail

----------------------------------------------------------------------------
(* str(data) for a value json.loads produced *)

RECURSIVE Repr(_), ReprItems(_, _)

\* repr(): strings are quoted, containers are spelled out
Repr(d) ==
    IF d.t = "str" THEN <<"'">> \o d.v \o <<"'">>
    ELSE IF d.t = "num" THEN d.v
    ELSE IF d.t = "null" THEN <<"N", "o", "n", "e">>
    ELSE IF d.t = "obj" THEN <<"{">> \o ReprItems(d.v, TRUE) \o <<"}">>
    ELSE <<"[">> \o ReprItems(d.v, FALSE) \o <<"]">>

ReprItems(items, isObj) ==
    IF items = <<>> THEN <<>>
    ELSE LET one == IF isObj
                    THEN <<"'">> \o Head(items)[1] \o <<"'", ":", " ">> \o Repr(Head(items)[2])
                    ELSE Repr(Head(items))
         IN IF Len(items) = 1 THEN one
            ELSE one \o <<",", " ">> \o ReprItems(Tail(items), isObj)

\* str(): a string is itself, everything else is its repr
str(d) == IF d.t = "str" THEN d.v ELSE Repr(d)

----------------------------------------------------------------------------
(* get_from_keychain *)

\* the outcome of a call: a returned value, or the exception that escaped it
Return(v) == [exc |-> "", value |-> v]
Raise(e) == [exc |-> e, value |-> None]

\* data[key]: a dict yields the value or KeyError; nothing else takes a str key
GetItem(data, key) ==
    IF data.t = "obj"
    THEN IF \E i \in 1..Len(data.v) : data.v[i][1] = key
         THEN Return(data.v[CHOOSE i \in 1..Len(data.v) :
                                data.v[i][1] = key
                                /\ \A j \in (i + 1)..Len(data.v) : data.v[j][1] # key][2])
         ELSE Raise("KeyError")
    ELSE Raise("TypeError")

\* for key in keys: data = data[key]
RECURSIVE WalkPath(_, _)
WalkPath(data, keys) ==
    IF keys = <<>> THEN Return(data)
    ELSE LET r == GetItem(data, Head(keys))
         IN IF r.exc # "" THEN r ELSE WalkPath(r.value, Tail(keys))

\* the exceptions the except clause names
CaughtInKeychain == {"CalledProcessError", "JSONDecodeError", "KeyError"}

\* the try body: subprocess.run(check=True), strip, optional json_path extraction
KeychainTry(proc, json_path) ==
    IF proc.returncode # 0 THEN Raise("CalledProcessError")
    ELSE LET value == strip(proc.stdout)
         IN IF Truthy(json_path) /\ Truthy(value)
            THEN LET parsed == json_loads(value)
                 IN IF ~parsed.ok THEN Raise("JSONDecodeError")
                    ELSE LET r == WalkPath(parsed.val, split(json_path, "."))
                         IN IF r.exc # "" THEN r ELSE Return(str(r.value))
            ELSE Return(value)

\* get_from_keychain(config) on `platform`, the security tool answering `proc`
get_from_keychain(platform, proc, json_path) ==
    IF platform # "darwin" THEN Return(None)
    ELSE LET r == KeychainTry(proc, json_path)
         IN IF r.exc \in CaughtInKeychain THEN Return(None) ELSE r

----------------------------------------------------------------------------
(* secret_exists *)

\* a listing whose first tab-delimited field is a prefix of, or starts with, name
secret_exists_prefix(result, name) ==
    /\ result.returncode = 0
    /\ \E k \in 1..Len(splitlines(result.stdout)) :
          StartsWith(splitlines(result.stdout)[k], name)

\* secret_exists(repo, name), gh secret list answering `result`
secret_exists(result, name) ==
    IF result.returncode # 0 THEN FALSE
    ELSE \E k \in 1..Len(splitlines(result.stdout)) :
            split(splitlines(result.stdout)[k], "\t")[1] = name

----------------------------------------------------------------------------
(* Text builders for the external tools' answers *)

Q(s) == <<"\"">> \o s \o <<"\"">>
Obj(k, v) == <<"{">> \o Q(k) \o <<":">> \o v \o <<"}">>
Line(s) == s \o <<"\n">>

----------------------------------------------------------------------------
(* set_secret *)

\* gh secret set exiting `rc`: the calls made, the line printed, the return value
set_secret(repo, name, value, dry_run, rc) ==
    IF dry_run
    THEN [gh |-> <<>>,
          out |-> [kind |-> "would_set", secret |-> name, repo |-> repo],
          ok |-> TRUE]
    ELSE [gh |-> <<[op |-> "set", repo |-> repo, name |-> name, value |-> value,
                    result |-> (rc = 0)]>>,
          out |-> [kind |-> (IF rc # 0 THEN "set_failed" ELSE "set_ok"),
                   secret |-> name, repo |-> repo],
          ok |-> (rc = 0)]

----------------------------------------------------------------------------
(* Config *)

\* the i-th secret name of the config: "S", "SS", ... (each a prefix of the next)
SecretName(i) == [k \in 1..i |-> "S"]

\* a name no config defines
UnknownName == <<"U">>

\* the j-th repository name: "r", "rr", ...
RepoName(j) == [k \in 1..j |-> "r"]

\* KeychainConfig(service, json_path), a pair so that it compares with None
KeychainConfig(service, json_path) == <<service, json_path>>
json_path_of(kc) == kc[2]

\* KeychainConfig of the i-th secret: odd secrets have one, the first with a json_path
KeychainOf(i) ==
    IF i % 2 = 0 THEN None
    ELSE KeychainConfig(<<"s", "v", "c">>, IF i = 1 THEN <<"a", ".", "b">> ELSE None)

\* SecretDef
SecretDefs ==
    [i \in 1..NumSecrets |->
        [name |-> SecretName(i),
         description |-> IF i = 1 THEN <<"d">> ELSE <<>>,
         keychain |-> KeychainOf(i)]]

\* the required-secret lists a repository may have in the config
RequiredMenu ==
    { <<SecretName(1), SecretName(2)>>,
      <<SecretName(1)>>,
      <<SecretName(NumSecrets), UnknownName>> }

\* the configs explored: fixed secrets, every repository's list from the menu
Configs ==
    { [secrets |-> SecretDefs,
       repos |-> [j \in 1..NumRepos |-> [name |-> RepoName(j), secrets |-> req[j]]]]
      : req \in [1..NumRepos -> RequiredMenu] }

\* list(config.secrets.keys())
secrets_keys(cfg) == [i \in 1..Len(cfg.secrets) |-> cfg.secrets[i].name]

\* secret_name in config.secrets
InSecrets(cfg, name) == \E i \in 1..Len(cfg.secrets) : cfg.secrets[i].name = name

\* config.secrets[secret_name]
SecretDefOf(cfg, name) ==
    cfg.secrets[CHOOSE i \in 1..Len(cfg.secrets) : cfg.secrets[i].name = name]

\* secret_name in repo.secrets
Requires(repo, name) == \E k \in 1..Len(repo.secrets) : repo.secrets[k] = name

\* [repo for repo in config.repos.values() if secret_name in repo.secrets]
ReposNeeding(cfg, name) ==
    LET Needs(r) == Requires(r, name) IN SelectSeq(cfg.repos, Needs)

----------------------------------------------------------------------------
(* The command line and the environment *)

ArgSecrets == {None, <<>>, UnknownName} \cup {SecretName(i) : i \in 1..NumSecrets}

ArgsSet ==
    [command : {"list"}, secret : ArgSecrets, all : {FALSE}, dry_run : {FALSE}]
    \cup [command : {"sync"}, secret : ArgSecrets, all : {FALSE}, dry_run : BOOLEAN]
    \cup [command : {"sync"}, secret : {None, UnknownName}, all : {TRUE}, dry_run : BOOLEAN]

\* what the credential store may answer during a sync
SyncKeychainOutputs ==
    { Line(<<"t", "o", "k">>),
      Line(Obj(<<"a">>, Obj(<<"b">>, Q(<<"t", "o", "k">>)))),
      Line(Obj(<<"a">>, Obj(<<"b">>, Q(<<>>)))),
      Line(Obj(<<"a">>, Q(<<"t", "o", "k">>))),
      Line(Obj(<<"a">>, <<"{", "}">>)) }

\* what the operator may type at the getpass prompt
TypedInputs == {<<>>, <<"v">>}

\* what sys.stdin.readline() may return: "" at end of input, else one line
PipedLines == {<<>>, <<"\n">>, <<"v", "\n">>, <<" ", "v", " ", "\n">>}

\* what gh secret list may print when asked about `name`
Listings(name) ==
    { <<>>,
      name \o <<"\t", "u", "\n">>,
      name \o <<"S", "\t", "u", "\n">>,
      <<"X", "\t", "u", "\n">> \o name \o <<"\t", "u", "\n">> }

GhResults(name) == [returncode : {0, 1}, stdout : Listings(name)]

----------------------------------------------------------------------------
(* The pure functions on their own: Init draws an input, the action        *)
(* applies the function once.                                              *)

Pending == [done |-> FALSE]
Done(out) == [done |-> TRUE, out |-> out]

\* the handlers' state while a pure function is exercised
OrchIdle ==
    /\ config = [secrets |-> <<>>, repos |-> <<>>]
    /\ args = [command |-> "none"]
    /\ pc = "idle"
    /\ secret_names = <<>>
    /\ si = 0
    /\ repos_needing = <<>>
    /\ ri = 0
    /\ secret_values = <<>>
    /\ calls = <<>>
    /\ lookups = <<>>
    /\ printed = <<>>
    /\ remote = {}
    /\ exit_code = -1

Keys == {"a", "b"}

\* what `security find-generic-password -w` may print
KeychainOutputs ==
    { <<>>,
      <<"\n">>,
      Line(<<"t", "o", "k">>),                                   \* a bare password
      Line(Obj(<<"a">>, Obj(<<"b">>, Q(<<"t", "o", "k">>)))),    \* {"a":{"b":"tok"}}
      Line(Obj(<<"a">>, Obj(<<"b">>, Q(<<>>)))),                 \* {"a":{"b":""}}
      Line(Obj(<<"a">>, Q(<<"t", "o", "k">>))),                  \* {"a":"tok"}
      Line(Obj(<<"a">>, <<"7">>)),                               \* {"a":7}
      Line(Obj(<<"a">>, <<"[", "7", "]">>)),                     \* {"a":[7]}
      Line(Obj(<<"a">>, <<"n", "u", "l", "l">>)),                \* {"a":null}
      Line(Obj(<<"a">>, <<"{", "}">>)),                          \* {"a":{}}
      Line(Obj(<<"b">>, Q(<<"t", "o", "k">>))),                  \* {"b":"tok"}
      Line(Q(<<"t", "o", "k">>)),                                \* "tok"
      Line(<<"7">>),                                             \* 7
      Line(<<"[", "]">>),                                        \* []
      Line(<<"{", "\"", "a", "\"", ":">>) }                      \* {"a":  (cut short)

\* dot-separated paths of at most n segments
RECURSIVE Paths(_)
Paths(n) ==
    IF n <= 1 THEN {<<k>> : k \in Keys}
    ELSE Paths(n - 1) \cup {p \o <<".", k>> : p \in Paths(n - 1), k \in Keys}

JsonPaths == {None, <<>>} \cup Paths(MaxPath)

Platforms == {"darwin", "linux"}

KeychainInit ==
    /\ OrchIdle
    /\ call \in [fn : {"get_from_keychain"}, platform : Platforms,
                 returncode : {0, 44}, stdout : KeychainOutputs, json_path : JsonPaths]
    /\ ret = Pending

KeychainCall ==
    /\ call.fn = "get_from_keychain"
    /\ ret = Pending
    /\ ret' = Done(get_from_keychain(call.platform,
                                     [returncode |-> call.returncode, stdout |-> call.stdout],
                                     call.json_path))
    /\ UNCHANGED <<orch_vars, call>>

KeychainNext == KeychainCall

SpecKeychain == KeychainInit /\ [][KeychainNext]_vars

\* character sequences over S of length at most n
RECURSIVE Strings(_, _)
Strings(S, n) ==
    IF n = 0 THEN {<<>>}
    ELSE Strings(S, n - 1) \cup {Append(s, c) : s \in Strings(S, n - 1), c \in S}

ListingAlphabet == {"A", "a", "\t", "\n"}
ListingNames == Strings({"A", "a"}, 2)

ExistsInit ==
    /\ OrchIdle
    /\ call \in [fn : {"secret_exists"}, returncode : {0, 1},
                 stdout : Strings(ListingAlphabet, MaxOut), name : ListingNames]
    /\ ret = Pending

ExistsCall ==
    /\ call.fn = "secret_exists"
    /\ ret = Pending
    /\ ret' = Done(secret_exists([returncode |-> call.returncode, stdout |-> call.stdout],
                                 call.name))
    /\ UNCHANGED <<orch_vars, call>>

ExistsNext == ExistsCall

SpecExists == ExistsInit /\ [][ExistsNext]_vars

----------------------------------------------------------------------------
(* C9: the credential-store lookup never raises: whatever the platform,    *)
(* the query tool's exit status, its output and the jsonPath, every        *)
(* failure (a non-mapping intermediate value included) yields absent.      *)
KeychainNeverRaises == ret.done => ret.out.exc = ""

(* C10: secret_exists is true iff the listing exited 0 and some line's     *)
(* first tab-delimited field is exactly the name.  The right-hand side     *)
(* locates the field in the raw output: it starts at the head of a line    *)
(* and is followed by a tab, a newline or the end of the output.           *)
FieldAt(s, i, name) ==
    /\ i = 1 \/ s[i - 1] = "\n"
    /\ i + Len(name) - 1 <= Len(s)
    /\ SubSeq(s, i, i + Len(name) - 1) = name
    /\ i + Len(name) > Len(s) \/ s[i + Len(name)] \in {"\t", "\n"}

ExistsIffExactFirstField ==
    ret.done =>
        (ret.out <=> /\ call.returncode = 0
                     /\ \E i \in 1..Len(call.stdout) : FieldAt(call.stdout, i, call.name))

\* a listing that holds a longer name starting with the one asked for, and only that
ExistsWitness ==
    /\ ret.done
    /\ ~ret.out
    /\ call.returncode = 0
    /\ call.name = <<"A">>
    /\ call.stdout = <<"A", "a", "\t">>

----------------------------------------------------------------------------
(* main, cmd_list, cmd_sync *)

Out(kind, secret, repo) == [kind |-> kind, secret |-> secret, repo |-> repo]

Init ==
    /\ config \in Configs
    /\ args \in ArgsSet
    /\ pc = "main"
    /\ secret_names = <<>>
    /\ si = 0
    /\ repos_needing = <<>>
    /\ ri = 0
    /\ secret_values = <<>>
    /\ calls = <<>>
    /\ lookups = <<>>
    /\ printed = <<>>
    /\ remote = {}
    /\ exit_code = -1
    /\ call = [fn |-> "main"]
    /\ ret = Pending

\* return code: the handler's return value becomes the exit status
Exit(code, lines) ==
    /\ pc' = "done"
    /\ exit_code' = code
    /\ printed' = printed \o lines

\* an exception nobody catches: the traceback naming it, exit status 1
Crash(exc) == Exit(1, <<Out(exc, None, None)>>)

\* the end of one pass of a per-repository loop: next repository, or next secret
NextRepo(loop_pc, secret_pc) ==
    IF ri < Len(repos_needing)
    THEN /\ ri' = ri + 1
         /\ pc' = loop_pc
         /\ UNCHANGED <<si, repos_needing>>
    ELSE /\ si' = si + 1
         /\ pc' = secret_pc
         /\ UNCHANGED <<ri, repos_needing>>

\* secret_names = [args.secret] if args.secret else list(config.secrets.keys())
ListSelection(cfg, a) ==
    IF Truthy(a.secret) THEN <<a.secret>> ELSE secrets_keys(cfg)

\* the status mark, the wrong way round
ListStatus_inverted(exists) == IF exists THEN "missing" ELSE "present"

\* status = "present mark" if exists else "missing"
ListStatus(exists) == IF exists THEN "present" ELSE "missing"

ListStart ==
    /\ pc = "main"
    /\ args.command = "list"
    /\ secret_names' = ListSelection(config, args)
    /\ si' = 1
    /\ pc' = "list_secret"
    /\ UNCHANGED <<config, args, repos_needing, ri, secret_values, calls, lookups,
                   printed, remote, exit_code, call, ret>>

\* one pass of the outer loop up to the repository loop; return 0 after the last
ListSecret ==
    /\ pc = "list_secret"
    /\ IF si > Len(secret_names)
       THEN /\ Exit(0, <<>>)
            /\ UNCHANGED <<si, repos_needing, ri>>
       ELSE LET secret_name == secret_names[si]
            IN IF ~InSecrets(config, secret_name)
               THEN /\ Exit(1, <<Out("unknown", secret_name, None)>>)
                    /\ UNCHANGED <<si, repos_needing, ri>>
               ELSE LET secret_def == SecretDefOf(config, secret_name)
                        needing == ReposNeeding(config, secret_name)
                    IN /\ printed' = printed \o <<Out("header", secret_name, None)>>
                                     \o (IF Truthy(secret_def.description)
                                         THEN <<Out("description", secret_name, None)>>
                                         ELSE <<>>)
                       /\ repos_needing' = needing
                       /\ ri' = 1
                       /\ IF needing = <<>>
                          THEN si' = si + 1 /\ pc' = "list_secret"
                          ELSE si' = si /\ pc' = "list_repo"
                       /\ UNCHANGED exit_code
    /\ UNCHANGED <<config, args, secret_names, secret_values, calls, lookups,
                   remote, call, ret>>

\* one pass of the repository loop: secret_exists, then the status line
ListRepo ==
    /\ pc = "list_repo"
    /\ \E result \in GhResults(secret_names[si]) :
       \E exists \in {secret_exists(result, secret_names[si])} :
          LET secret_name == secret_names[si]
              repo == repos_needing[ri]
          IN /\ calls' = Append(calls, [op |-> "list", repo |-> repo.name,
                                        name |-> secret_name, value |-> None,
                                        result |-> exists])
             /\ printed' = Append(printed, Out(ListStatus(exists), secret_name, repo.name))
    /\ NextRepo("list_repo", "list_secret")
    /\ UNCHANGED <<config, args, secret_names, secret_values, lookups, remote,
                   exit_code, call, ret>>

\* lines 210-216: [err |-> TRUE] when neither --all nor a name is given
SyncSelection(cfg, a) ==
    IF a.all THEN [err |-> FALSE, names |-> secrets_keys(cfg)]
    ELSE IF Truthy(a.secret) THEN [err |-> FALSE, names |-> <<a.secret>>]
    ELSE [err |-> TRUE, names |-> <<>>]

\* the validation loop left out
FirstUnknown_skipped(cfg, names) == 0

\* lines 218-221: index of the first name that is not in config.secrets, 0 if none
FirstUnknown(cfg, names) ==
    IF \A i \in 1..Len(names) : InSecrets(cfg, names[i]) THEN 0
    ELSE CHOOSE i \in 1..Len(names) :
            ~InSecrets(cfg, names[i]) /\ \A j \in 1..(i - 1) : InSecrets(cfg, names[j])

\* values resolved whatever the mode
ResolveValues_always(dry_run) == TRUE

\* if not args.dry_run
ResolveValues(dry_run) == ~dry_run

SyncStart ==
    /\ pc = "main"
    /\ args.command = "sync"
    /\ LET sel == SyncSelection(config, args)
           bad == FirstUnknown(config, sel.names)
       IN IF sel.err
          THEN /\ Exit(1, <<Out("specify", None, None)>>)
               /\ UNCHANGED <<secret_names, si>>
          ELSE IF bad # 0
          THEN /\ Exit(1, <<Out("unknown", sel.names[bad], None)>>)
               /\ secret_names' = sel.names
               /\ UNCHANGED si
          ELSE /\ secret_names' = sel.names
               /\ si' = 1
               /\ pc' = IF ResolveValues(args.dry_run) /\ sel.names # <<>>
                        THEN "resolve" ELSE "sync_secret"
               /\ UNCHANGED <<printed, exit_code>>
    /\ UNCHANGED <<config, args, repos_needing, ri, secret_values, calls, lookups,
                   remote, call, ret>>

\* if not value (line 237): nothing usable came from the keychain
NeedsInput(value) == ~Truthy(value)

\* an empty value let through
IsEmpty_never(value) == FALSE

\* if not value (line 243)
IsEmpty(value) == ~Truthy(value)

\* syncing starts as soon as one value is there
AfterResolved_eager(i, n) == "sync_secret"

\* the resolution loop runs over every selected secret before the sync loop starts
AfterResolved(i, n) == IF i < n THEN "resolve" ELSE "sync_secret"

\* one pass of the resolution loop (lines 226-246)
Resolve ==
    /\ pc = "resolve"
    /\ \E platform \in Platforms,
          proc \in [returncode : {0, 44}, stdout : SyncKeychainOutputs],
          tty \in BOOLEAN, typed \in TypedInputs, line \in PipedLines :
       \E kc \in {IF SecretDefOf(config, secret_names[si]).keychain # None
                  THEN get_from_keychain(platform, proc,
                          json_path_of(SecretDefOf(config, secret_names[si]).keychain))
                  ELSE Return(None)} :
          LET secret_name == secret_names[si]
              secret_def == SecretDefOf(config, secret_name)
              tried == secret_def.keychain # None
              read == NeedsInput(kc.value)
              value == IF read THEN (IF tty THEN typed ELSE strip(line)) ELSE kc.value
              Log(r, v, e) == Append(lookups, [name |-> secret_name, keychain |-> tried,
                                               found |-> kc.value, input |-> r,
                                               value |-> v, exc |-> e])
          IN IF kc.exc # ""
             THEN /\ Crash(kc.exc)
                  /\ lookups' = Log(FALSE, None, kc.exc)
                  /\ UNCHANGED <<si, secret_values>>
             ELSE IF IsEmpty(value)
             THEN /\ Exit(1, (IF Truthy(kc.value)
                              THEN <<Out("from_keychain", secret_name, None)>> ELSE <<>>)
                             \o <<Out("empty", secret_name, None)>>)
                  /\ lookups' = Log(read, None, "")
                  /\ UNCHANGED <<si, secret_values>>
             ELSE /\ lookups' = Log(read, value, "")
                  /\ secret_values' = (secret_name :> value) @@ secret_values
                  /\ printed' = printed \o (IF Truthy(kc.value)
                                            THEN <<Out("from_keychain", secret_name, None)>>
                                            ELSE <<>>)
                  /\ pc' = AfterResolved(si, Len(secret_names))
                  /\ si' = IF AfterResolved(si, Len(secret_names)) = "resolve"
                           THEN si + 1 ELSE 1
                  /\ UNCHANGED exit_code
    /\ UNCHANGED <<config, args, secret_names, repos_needing, ri, calls, remote,
                   call, ret>>

\* the head of one pass of the sync loop (lines 249-254); Done and return 0 after the last
SyncSecret ==
    /\ pc = "sync_secret"
    /\ IF si > Len(secret_names)
       THEN /\ Exit(0, <<Out("done", None, None)>>)
            /\ UNCHANGED <<si, repos_needing, ri>>
       ELSE LET secret_name == secret_names[si]
                needing == ReposNeeding(config, secret_name)
            IN /\ printed' = Append(printed, Out("syncing", secret_name, None))
               /\ repos_needing' = needing
               /\ ri' = 1
               /\ IF needing = <<>>
                  THEN si' = si + 1 /\ pc' = "sync_secret"
                  ELSE si' = si /\ pc' = "sync_repo"
               /\ UNCHANGED exit_code
    /\ UNCHANGED <<config, args, secret_names, secret_values, calls, lookups,
                   remote, call, ret>>

\* a write whatever the check said
SyncDecision_always(exists, dry_run) == IF dry_run THEN "would_set" ELSE "set"

\* if exists ... elif args.dry_run ... else set_secret(...)
SyncDecision(exists, dry_run) ==
    IF exists THEN "already_set"
    ELSE IF dry_run THEN "would_set"
    ELSE "set"

\* gh secret set stores the body under the name, replacing what was there
Store(rem, repo, name, value) ==
    {t \in rem : ~(t[1] = repo /\ t[2] = name)} \cup {<<repo, name, value>>}

\* the repository loop giving up, with return code 1, at the first failed write
SyncRepo_abort ==
    /\ pc = "sync_repo"
    /\ \E result \in GhResults(secret_names[si]), rc \in {0, 1} :
       \E exists \in {secret_exists(result, secret_names[si])} :
          LET secret_name == secret_names[si]
              repo == repos_needing[ri]
              check == [op |-> "list", repo |-> repo.name, name |-> secret_name,
                        value |-> None, result |-> exists]
              decision == SyncDecision(exists, args.dry_run)
          IN IF decision = "set" /\ secret_name \notin DOMAIN secret_values
             THEN /\ calls' = Append(calls, check)
                  /\ Crash("KeyError")
                  /\ UNCHANGED <<si, ri, repos_needing, remote>>
             ELSE IF decision = "set"
             THEN LET w == set_secret(repo.name, secret_name,
                                      secret_values[secret_name], FALSE, rc)
                  IN /\ calls' = Append(calls, check) \o w.gh
                     /\ remote' = IF w.ok
                                  THEN Store(remote, repo.name, secret_name,
                                             secret_values[secret_name])
                                  ELSE remote
                     /\ IF w.ok
                        THEN /\ printed' = Append(printed, w.out)
                             /\ NextRepo("sync_repo", "sync_secret")
                             /\ UNCHANGED exit_code
                        ELSE /\ Exit(1, <<w.out>>)
                             /\ UNCHANGED <<si, ri, repos_needing>>
             ELSE /\ rc = 0
                  /\ calls' = Append(calls, check)
                  /\ printed' = Append(printed, Out(decision, secret_name, repo.name))
                  /\ NextRepo("sync_repo", "sync_secret")
                  /\ UNCHANGED <<remote, exit_code>>
    /\ UNCHANGED <<config, args, secret_names, secret_values, lookups, call, ret>>

\* one pass of the repository loop (lines 256-263); set_secret's return value is dropped
SyncRepo ==
    /\ pc = "sync_repo"
    /\ \E result \in GhResults(secret_names[si]), rc \in {0, 1} :
       \E exists \in {secret_exists(result, secret_names[si])} :
          LET secret_name == secret_names[si]
              repo == repos_needing[ri]
              check == [op |-> "list", repo |-> repo.name, name |-> secret_name,
                        value |-> None, result |-> exists]
              decision == SyncDecision(exists, args.dry_run)
          IN IF decision = "set" /\ secret_name \notin DOMAIN secret_values
             THEN /\ calls' = Append(calls, check)
                  /\ Crash("KeyError")
                  /\ UNCHANGED <<si, ri, repos_needing, remote>>
             ELSE IF decision = "set"
             THEN LET w == set_secret(repo.name, secret_name,
                                      secret_values[secret_name], FALSE, rc)
                  IN /\ calls' = Append(calls, check) \o w.gh
                     /\ remote' = IF w.ok
                                  THEN Store(remote, repo.name, secret_name,
                                             secret_values[secret_name])
                                  ELSE remote
                     /\ printed' = Append(printed, w.out)
                     /\ NextRepo("sync_repo", "sync_secret")
                     /\ UNCHANGED exit_code
             ELSE /\ rc = 0
                  /\ calls' = Append(calls, check)
                  /\ printed' = Append(printed, Out(decision, secret_name, repo.name))
                  /\ NextRepo("sync_repo", "sync_secret")
                  /\ UNCHANGED <<remote, exit_code>>
    /\ UNCHANGED <<config, args, secret_names, secret_values, lookups, call, ret>>

Next ==
    \/ ListStart
    \/ ListSecret
    \/ ListRepo
    \/ SyncStart
    \/ Resolve
    \/ SyncSecret
    \/ SyncRepo

Spec == Init /\ [][Next]_vars

----------------------------------------------------------------------------
(* What the claims speak of, read off the command line, the config and the *)
(* logs, not off the handlers' own variables.                               *)

IsSync == args.command = "sync"
IsList == args.command = "list"
Finished == pc = "done"

\* the names a sync run selects: every key with --all, else the name given
Selected ==
    IF args.all THEN {config.secrets[i].name : i \in 1..Len(config.secrets)}
    ELSE IF args.secret # None THEN {args.secret}
    ELSE {}

\* the same, in order
SelectedSeq ==
    IF args.all THEN [i \in 1..Len(config.secrets) |-> config.secrets[i].name]
    ELSE IF args.secret # None THEN <<args.secret>>
    ELSE <<>>

\* every name a run could speak of
AnyName == ArgSecrets \ {None}

\* the names of the repositories that list s, in the config's order
Requiring(s) ==
    LET Lists(r) == \E k \in 1..Len(r.secrets) : r.secrets[k] = s
        rs == SelectSeq(config.repos, Lists)
    IN [j \in 1..Len(rs) |-> rs[j].name]

InSeq(x, q) == \E j \in 1..Len(q) : q[j] = x

ListCalls(r, s) ==
    {k \in 1..Len(calls) : calls[k].op = "list" /\ calls[k].repo = r /\ calls[k].name = s}

SetCalls(r, s) ==
    {k \in 1..Len(calls) : calls[k].op = "set" /\ calls[k].repo = r /\ calls[k].name = s}

NoWrites == \A k \in 1..Len(calls) : calls[k].op # "set"

\* the value the resolution of s ended with; None if there was none
ResolvedValue(s) ==
    IF \E k \in 1..Len(lookups) : lookups[k].name = s
    THEN lookups[CHOOSE k \in 1..Len(lookups) : lookups[k].name = s].value
    ELSE None

\* the printed lines of the given kinds about s, in order
LinesAbout(s, kinds) ==
    LET Is(l) == l.secret = s /\ l.kind \in kinds IN SelectSeq(printed, Is)

\* the (repository, secret) pairs a complete run checks, in order
RECURSIVE ExpectedChecks(_)
ExpectedChecks(names) ==
    IF names = <<>> THEN <<>>
    ELSE [j \in 1..Len(Requiring(Head(names))) |->
             <<Requiring(Head(names))[j], Head(names)>>]
         \o ExpectedChecks(Tail(names))

\* the pairs checked so far, in order
ChecksMade ==
    LET IsCheck(c) == c.op = "list"
        cs == SelectSeq(calls, IsCheck)
    IN [k \in 1..Len(cs) |-> <<cs[k].repo, cs[k].name>>]

----------------------------------------------------------------------------
(* C1: a sync that selects a name the config does not define ends with     *)
(* exit code 1 and has made no remote call (list or set), no               *)
(* credential-store lookup and no prompt or stdin read.                    *)
SyncUnknownFailsFast ==
    (IsSync /\ pc # "main" /\ \E n \in Selected : ~InSecrets(config, n))
    => /\ Finished
       /\ exit_code = 1
       /\ calls = <<>>
       /\ lookups = <<>>

SyncUnknownWitness ==
    /\ IsSync /\ Finished
    /\ ~args.all /\ args.secret = UnknownName
    /\ exit_code = 1
    /\ printed = <<Out("unknown", UnknownName, None)>>
    /\ \E j \in 1..Len(config.repos) : InSeq(UnknownName, config.repos[j].secrets)

(* C2: a dry-run sync never calls set, resolves no value (no lookup, no    *)
(* read), and when it returns 0 it has printed, for every selected secret, *)
(* one intended-action line per repository that lists it, in order: the    *)
(* skip when the check said present, the would-set when it said missing.   *)
DryRunNoWrites ==
    (IsSync /\ args.dry_run)
    => /\ NoWrites
       /\ remote = {}
       /\ lookups = <<>>
       /\ (Finished /\ exit_code = 0) =>
             \A s \in Selected :
                LET ls == LinesAbout(s, {"already_set", "would_set", "set_ok", "set_failed"})
                IN /\ Len(ls) = Len(Requiring(s))
                   /\ \A j \in 1..Len(ls) :
                         /\ ls[j].repo = Requiring(s)[j]
                         /\ \E k \in ListCalls(ls[j].repo, s) :
                               ls[j].kind = IF calls[k].result THEN "already_set"
                                            ELSE "would_set"

DryRunWitness ==
    /\ IsSync /\ args.dry_run /\ Finished /\ exit_code = 0
    /\ \E s \in Selected :
          /\ Len(LinesAbout(s, {"would_set"})) >= 1
          /\ Len(LinesAbout(s, {"already_set"})) >= 1

(* C3: in a sync that is not a dry run, every (repository, secret) pair is *)
(* checked at most once and written at most once, a write is only made for *)
(* a selected secret the repository lists, after a check that said         *)
(* missing, with the value resolved for that secret; and a run that        *)
(* returns 0 has checked every such pair exactly once and written exactly  *)
(* the ones whose check said missing.                                      *)
SyncSetsExactlyMissing ==
    (IsSync /\ ~args.dry_run)
    => \A s \in AnyName : \A j \in 1..Len(config.repos) :
          LET r == config.repos[j].name
              L == ListCalls(r, s)
              W == SetCalls(r, s)
              needed == s \in Selected /\ InSeq(r, Requiring(s))
          IN /\ Cardinality(L) <= 1
             /\ Cardinality(W) <= 1
             /\ L # {} => needed
             /\ \A w \in W :
                   /\ needed
                   /\ \E k \in L : k < w /\ ~calls[k].result
                   /\ calls[w].value = ResolvedValue(s)
             /\ (Finished /\ exit_code = 0 /\ needed)
                   => /\ Cardinality(L) = 1
                      /\ \A k \in L : (W = {}) <=> calls[k].result

SyncSetsWitness ==
    /\ IsSync /\ ~args.dry_run /\ Finished /\ exit_code = 0
    /\ \E s \in Selected :
          /\ Len(Requiring(s)) = 2
          /\ \E k \in ListCalls(Requiring(s)[1], s) : calls[k].result
          /\ SetCalls(Requiring(s)[1], s) = {}
          /\ \E w \in SetCalls(Requiring(s)[2], s) :
                calls[w].value = <<"v">> /\ calls[w].result

(* C4: a failed write does not end the run: a sync (not a dry run) in      *)
(* which a write failed still returns 0 having checked every pair of every *)
(* selected secret, in order, and written after every check that said      *)
(* missing; and every write that succeeded is still stored.                *)
FailedWriteDoesNotAbort ==
    (IsSync /\ ~args.dry_run)
    => /\ \A k \in 1..Len(calls) :
             (calls[k].op = "set" /\ calls[k].result)
             => <<calls[k].repo, calls[k].name, calls[k].value>> \in remote
       /\ (Finished /\ \E k \in 1..Len(calls) : calls[k].op = "set" /\ ~calls[k].result)
             => /\ exit_code = 0
                /\ ChecksMade = ExpectedChecks(SelectedSeq)
                /\ \A k \in 1..Len(calls) :
                      (calls[k].op = "list" /\ ~calls[k].result)
                      => /\ k < Len(calls)
                         /\ calls[k + 1].op = "set"
                         /\ calls[k + 1].repo = calls[k].repo
                         /\ calls[k + 1].name = calls[k].name

FailedWriteWitness ==
    /\ IsSync /\ ~args.dry_run /\ Finished
    /\ \E k, m, n \in 1..Len(calls) :
          /\ k < m /\ m < n
          /\ calls[k].op = "set" /\ ~calls[k].result
          /\ calls[m].op = "set" /\ calls[m].result /\ calls[m].name = calls[k].name
          /\ calls[n].op = "set" /\ calls[n].name # calls[k].name
          /\ <<calls[m].repo, calls[m].name, calls[m].value>> \in remote

\* a resolution that ended with no usable value
EmptyResolved == \E k \in 1..Len(lookups) : lookups[k].exc = "" /\ lookups[k].value = None

(* C5: sync exits 1 exactly when no name is given and --all is absent, or  *)
(* a selected name is unknown, or a selected secret resolves to an empty   *)
(* value; in every other run it exits 0.                                   *)
SyncExitCode ==
    (IsSync /\ Finished)
    => /\ exit_code \in {0, 1}
       /\ exit_code = 1 <=> \/ ~args.all /\ ~Truthy(args.secret)
                            \/ \E n \in Selected : ~InSecrets(config, n)
                            \/ EmptyResolved

(* C6: in a sync that is not a dry run no remote call is made before every *)
(* selected secret has a value, and a run in which a secret resolved to    *)
(* empty has ended with exit code 1 and no remote call at all.             *)
ResolveBeforeRemote ==
    (IsSync /\ ~args.dry_run)
    => /\ calls # <<>> => \A s \in Selected : Truthy(ResolvedValue(s))
       /\ EmptyResolved => (Finished /\ exit_code = 1 /\ calls = <<>>)

ResolveBeforeRemoteWitness ==
    /\ IsSync /\ ~args.dry_run /\ Finished /\ exit_code = 1
    /\ Len(lookups) = 2
    /\ Truthy(lookups[1].value)
    /\ lookups[2].exc = "" /\ lookups[2].value = None
    /\ calls = <<>>
    /\ Requiring(lookups[1].name) # <<>>

(* C7: the credential store is asked exactly when the secret has a         *)
(* keychain spec; a non-empty answer is the value and nothing is read;     *)
(* input is read only when there is no keychain spec or the answer was     *)
(* absent or empty; no resolved value, and no value passed to set, is      *)
(* empty; an empty input is a failure that ends the run with exit code 1.  *)
ResolutionOrder ==
    /\ \A k \in 1..Len(lookups) :
          LET l == lookups[k]
          IN /\ l.keychain <=> (SecretDefOf(config, l.name).keychain # None)
             /\ ~l.keychain => l.found = None
             /\ Truthy(l.found) => (~l.input /\ l.value = l.found)
             /\ l.input <=> (l.exc = "" /\ ~Truthy(l.found))
             /\ l.value # <<>>
             /\ l.value = None => (Finished /\ exit_code = 1 /\ k = Len(lookups))
    /\ \A n \in DOMAIN secret_values : Truthy(secret_values[n])
    /\ \A k \in 1..Len(calls) : calls[k].op = "set" => Truthy(calls[k].value)

ResolutionWitness ==
    /\ Finished /\ exit_code = 0
    /\ \E k \in 1..Len(lookups) :
          /\ lookups[k].keychain /\ lookups[k].found = <<>>
          /\ lookups[k].input /\ lookups[k].value = <<"v">>
          /\ \E w \in 1..Len(calls) :
                calls[w].op = "set" /\ calls[w].name = lookups[k].name
                /\ calls[w].value = <<"v">>

\* the secrets a list run reports on: the name given, or every key
ListTargets ==
    IF Truthy(args.secret) THEN {args.secret}
    ELSE {config.secrets[i].name : i \in 1..Len(config.secrets)}

\* what every list run does, whatever name is given
ListStatusLines ==
    /\ NoWrites
    /\ remote = {}
    /\ lookups = <<>>
    /\ (Finished /\ exit_code = 0) =>
          \A s \in ListTargets :
             LET ls == LinesAbout(s, {"present", "missing"})
             IN /\ Len(ls) = Len(Requiring(s))
                /\ \A j \in 1..Len(ls) :
                      /\ ls[j].repo = Requiring(s)[j]
                      /\ Cardinality(ListCalls(ls[j].repo, s)) = 1
                      /\ \A k \in ListCalls(ls[j].repo, s) :
                            ls[j].kind = IF calls[k].result THEN "present" ELSE "missing"

(* C8 as stated: one status line per repository that lists the secret, in  *)
(* config order, present iff the check said so; any given name that the    *)
(* config lacks makes the run end with exit code 1, nothing but the error  *)
(* printed and no check made; no set, no resolution.                       *)
ListReportsStatus_asStated ==
    IsList
    => /\ ListStatusLines
       /\ (args.secret # None /\ ~InSecrets(config, args.secret))
             => /\ calls = <<>>
                /\ Finished => (exit_code = 1 /\ Len(printed) = 1)

(* C8, amended: the same, for a given name that is not the empty string;   *)
(* an empty name counts as no name, and every configured secret is listed. *)
ListReportsStatus ==
    IsList
    => /\ ListStatusLines
       /\ (Truthy(args.secret) /\ ~InSecrets(config, args.secret))
             => /\ calls = <<>>
                /\ Finished => (exit_code = 1 /\ Len(printed) = 1)
       /\ (Finished /\ ~Truthy(args.secret)) => exit_code = 0

ListWitness ==
    /\ IsList /\ Finished /\ exit_code = 0
    /\ args.secret = SecretName(1)
    /\ LET ls == LinesAbout(SecretName(1), {"present", "missing"})
       IN /\ Len(ls) = 2
          /\ ls[1].kind = "present" /\ ls[1].repo = RepoName(1)
          /\ ls[2].kind = "missing" /\ ls[2].repo = RepoName(2)

====
